---- MODULE Spec2Model ----
(***************************************************************************)
(* PartDesign::Revolution (src/Mod/PartDesign/App/FeatureRevolution.cpp).  *)
(*                                                                         *)
(* The feature's properties are the state; Revolution::execute() is one    *)
(* action whose effect is computed by the operator execute(pre, in), a     *)
(* line-by-line translation of the C++ body.  The collaborators that live  *)
(* outside the file (getVerifiedFace, getBaseShape, getAxis, the OpenCascade*)
(* revolve / fuse / refine calls, getSolid) are inputs of the call: what   *)
(* they return, and whether one of them throws a Base::Exception or a      *)
(* Standard_Failure, is drawn with \E when the action fires.               *)
(*                                                                         *)
(* Angles: degrees are integers in units of 1/UnitsPerDegree degree, radians*)
(* are integers in microradians.  Shapes are symbolic terms (tuples).      *)
(***************************************************************************)
EXTENDS Integers, Sequences, FiniteSets, TLC

VARIABLES Type, Angle, Angle2, Reversed, Midplane,   \* input properties
          Base, Axis, AddSubShape, Shape,            \* output properties
          phase,                                     \* "editing" | "done"
          pre,                                       \* output properties before the last execute()
          env,                                       \* collaborator behaviour of the last execute()
          result,                                    \* what the last execute() returned / threw
          calls                                      \* collaborator calls of the last execute(), in order

vars == <<Type, Angle, Angle2, Reversed, Midplane, Base, Axis, AddSubShape, Shape,
          phase, pre, env, result, calls>>

----------------------------------------------------------------------------
(* Bounds and units *)

\* Largest number of faces in a profile.
MaxFaces == 2

\* Fixed-point resolution of degree values: 360.0001 degrees is representable.
UnitsPerDegree == 100 * 100

\* Base::toRadians: pi/180, in microradians per degree (truncated).
MicroRadPerDegree == 17453

\* Precision::Angular() is 1e-12 rad, below one microradian: on the integer
\* microradian grid "angle < Precision::Angular()" is "angle < 1".
PrecisionAngular == 1

\* floatAngle's upper limit and the literal of execute()'s first test: 360.0 degrees.
MaxAngleDeg == 360 * UnitsPerDegree

\* Base::toRadians<double>(deg), on the fixed-point grids.
toRadians(deg) ==
    (deg \div UnitsPerDegree) * MicroRadPerDegree
        + ((deg % UnitsPerDegree) * MicroRadPerDegree) \div UnitsPerDegree

TypeEnums == <<"Angle", "UpToLast", "UpToFirst", "UpToFace", "TwoAngles">>

TypeValues == {TypeEnums[i] : i \in 1..Len(TypeEnums)}

\* Values a user may store in Angle (the constraint is not enforced by setValue):
\* 0, 30, 360 and 360.0001 degrees.
AngleValues == {0, 30 * UnitsPerDegree, MaxAngleDeg, MaxAngleDeg + 1}

\* Values of Angle2: 20 and 60 degrees (60 is the constructor's default).
Angle2Values == {20 * UnitsPerDegree, 60 * UnitsPerDegree}

----------------------------------------------------------------------------
(* Shapes *)

NullShape == <<"null">>

\* The upstream feature's committed solid, as getBaseShape() returns it.
BaseSolid == <<"solid", "base">>

IsNull(s) == s = NullShape

\* TopoDS_Shape::Move: a null shape stays null.
Move(s) == IF IsNull(s) THEN s ELSE <<"moved", s>>

\* BRepFeat_MakeRevol::Init(base, face, support, axis, mode, modify) + Perform(bound) + Shape().
Revol(base, face, mode, bound) == <<"revol", base, face, mode, bound>>

\* BRepAlgoAPI_Fuse(a, b).Shape().
Fuse(a, b) == <<"fuse", a, b>>

\* refineShapeIfActive(s).
Refined(s) == <<"refined", s>>

\* getSolid(s) when the shape holds a solid.
SolidOf(s) == <<"solidOf", s>>


\* A face of the profile as handed to the kernel: its index and twice the rotation
\* about the revolve axis applied before the sweep (microradians; the factor 2 keeps
\* Midplane's -angle/2 an integer).
Face(i, rot2) == <<"face", i, rot2>>

\* The geometry ReferenceAxis resolves to (getAxis' out-parameters).
RefBase == <<0, 5, 0>>
RefDir == <<1, 0, 0>>

----------------------------------------------------------------------------
(* Control flow of one execute() call *)

\* The call log gains one collaborator call.
Called(st, op, face, arg) ==
    [st EXCEPT !.calls = Append(@, [op |-> op, face |-> face, arg |-> arg])]

\* What the collaborator call `step` (on face `face`, 0 if it has none) does in this
\* run: "ok", or the fault the environment injects there.
FaultAt(in, step, face) ==
    IF in.fault.step = step /\ in.fault.face = face THEN in.fault.kind ELSE "ok"

\* return new App::DocumentObjectExecReturn(msg) / return StdReturn
Returned(st, ret, msg) ==
    [how |-> "return", ret |-> ret, msg |-> msg, st |-> st, val |-> NullShape]

\* throw: how is the exception's class, "Base::Exception" or "Standard_Failure".
Thrown(st, how, msg) ==
    [how |-> how, ret |-> "", msg |-> msg, st |-> st, val |-> NullShape]

\* A collaborator fault of kind k at `step` leaves the current block as an exception;
\* the kernel's type-mismatch fault carries the message "TopoDS::Face".
Raise(st, k, step) ==
    IF k = "TopoDS::Face" THEN Thrown(st, "Standard_Failure", "TopoDS::Face")
    ELSE Thrown(st, k, step)

\* Control falls through to the next statement carrying value val.
Next_(st, val) ==
    [how |-> "next", ret |-> "", msg |-> "", st |-> st, val |-> val]


----------------------------------------------------------------------------
(* execute(), last statements first (an operator is defined before its use) *)

\* Line 232: this->Shape.setValue(getSolid(result)); line 237: return StdReturn.
\* getSolid returns the first solid of the shape, or an empty shape when it holds none.
CommitSolid(in, st, res) ==
    LET st1 == Called(st, "getSolid", 0, <<res>>)
        f == FaultAt(in, "getSolid", 0)
    IN  IF f \in {"Base::Exception", "Standard_Failure"} THEN Raise(st1, f, "getSolid")
        ELSE LET solid == IF f = "empty" THEN NullShape ELSE SolidOf(res)
             IN  Returned([st1 EXCEPT !.Shape = solid], "StdReturn", "")

\* Lines 222-230: if (!base.IsNull()) { fuse base and result, refine }.
FuseWithBase(in, st, base, res) ==
    IF IsNull(base) THEN Next_(st, res)
    ELSE LET st1 == Called(st, "BRepAlgoAPI_Fuse", 0, <<base, res>>)
             f == FaultAt(in, "BRepAlgoAPI_Fuse", 0)
         IN  IF f = "notDone"
             THEN Thrown(st1, "Base::Exception", "Fusion with base feature failed")
             ELSE IF f # "ok" THEN Raise(st1, f, "BRepAlgoAPI_Fuse")
             ELSE LET st2 == Called(st1, "refineShapeIfActive", 2, <<Fuse(base, res)>>)
                      g == FaultAt(in, "refineShapeIfActive", 2)
                  IN  IF g # "ok" THEN Raise(st2, g, "refineShapeIfActive")
                      ELSE Next_(st2, Refined(Fuse(base, res)))

\* FinishResult with Shape committed together with AddSubShape, before the union.
FinishResult_CommitsEarly(in, st, base, res) ==
    IF IsNull(res) THEN Returned(st, "ExecReturn", "Could not revolve the sketch!")
    ELSE LET st1 == Called(st, "refineShapeIfActive", 1, <<res>>)
             f == FaultAt(in, "refineShapeIfActive", 1)
         IN  IF f # "ok" THEN Raise(st1, f, "refineShapeIfActive")
             ELSE LET swept == Refined(res)
                      st2 == [st1 EXCEPT !.AddSubShape = swept, !.Shape = SolidOf(swept)]
                      fused == FuseWithBase(in, st2, base, swept)
                  IN  IF fused.how # "next" THEN fused
                      ELSE CommitSolid(in, fused.st, fused.val)

\* FinishResult with AddSubShape stored before the swept shape is refined.
FinishResult_StoresUnrefined(in, st, base, res) ==
    IF IsNull(res) THEN Returned(st, "ExecReturn", "Could not revolve the sketch!")
    ELSE LET st0 == [st EXCEPT !.AddSubShape = res]
             st1 == Called(st0, "refineShapeIfActive", 1, <<res>>)
             f == FaultAt(in, "refineShapeIfActive", 1)
         IN  IF f # "ok" THEN Raise(st1, f, "refineShapeIfActive")
             ELSE LET swept == Refined(res)
                      fused == FuseWithBase(in, st1, base, swept)
                  IN  IF fused.how # "next" THEN fused
                      ELSE CommitSolid(in, fused.st, fused.val)

\* Lines 217-237: refine, store AddSubShape, fuse with base, commit Shape.
FinishResult(in, st, base, res) ==
    IF IsNull(res) THEN Returned(st, "ExecReturn", "Could not revolve the sketch!")
    ELSE LET st1 == Called(st, "refineShapeIfActive", 1, <<res>>)
             f == FaultAt(in, "refineShapeIfActive", 1)
         IN  IF f # "ok" THEN Raise(st1, f, "refineShapeIfActive")
             ELSE LET swept == Refined(res)
                      st2 == [st1 EXCEPT !.AddSubShape = swept]
                      fused == FuseWithBase(in, st2, base, swept)
                  IN  IF fused.how # "next" THEN fused
                      ELSE CommitSolid(in, fused.st, fused.val)

\* Lines 183-193 and 201-211: for each face of the sketch, Init/Perform the revolve
\* against the accumulated base; mode is 2 for the first face and 1 afterwards.
\* val is the accumulated base after the last face.
RECURSIVE RevolLoop(_, _, _, _, _, _, _)
RevolLoop(in, st, sketch, base, mode, bound, i) ==
    IF i > sketch.n THEN Next_(st, base)
    ELSE LET face == Face(i, sketch.rot2)
             st1 == Called(st, "BRepFeat_MakeRevol", i, <<base, face, mode, bound>>)
             f == FaultAt(in, "BRepFeat_MakeRevol", i)
         IN  IF f = "notDone"
             THEN Thrown(st1, "Base::Exception",
                         IF bound[1] = "upToFace"
                         THEN "ProfileBased: Up to face: Could not revolve the sketch!"
                         ELSE "ProfileBased: Could not revolve the sketch!")
             ELSE IF f # "ok" THEN Raise(st1, f, "BRepFeat_MakeRevol")
             ELSE RevolLoop(in, st1, sketch, Revol(base, face, mode, bound),
                            IF mode = 2 THEN 1 ELSE mode, bound, i + 1)

\* Lines 197-215: the angle-bounded branch ("Angle", "TwoAngles").
\* RevolMaker.IsDone() after the loop is true exactly when a face was revolved.
RevolveByAngle(in, st, sketch, base, angle) ==
    LET loop == RevolLoop(in, st, sketch, base, 2, <<"angle", angle>>, 1)
    IN  IF loop.how # "next" THEN loop
        ELSE FinishResult(in, loop.st, loop.val,
                          IF sketch.n >= 1 THEN loop.val ELSE NullShape)

\* RevolveUpTo with UpToFirst and UpToLast handled like UpToFace instead of thrown.
RevolveUpTo_AllFaceBounded(in, st, sketch, base, method) ==
    LET st1 == Called(st, "getFaceFromLinkSub", 0, <<>>)
        f == FaultAt(in, "getFaceFromLinkSub", 0)
    IN  IF f # "ok" THEN Raise(st1, f, "getFaceFromLinkSub")
        ELSE LET st2 == Called(st1, "getUpToFace", 0, <<>>)
                 g == FaultAt(in, "getUpToFace", 0)
             IN  IF g # "ok" THEN Raise(st2, g, "getUpToFace")
                 ELSE LET loop == RevolLoop(in, st2, sketch, base, 2, <<"upToFace">>, 1)
                      IN  IF loop.how # "next" THEN loop
                          ELSE FinishResult(in, loop.st, loop.val, loop.val)

\* Lines 169-196: the face-bounded branch ("UpToFace", "UpToFirst", "UpToLast").
RevolveUpTo(in, st, sketch, base, method) ==
    IF method # "UpToFace"
    THEN Thrown(st, "Base::Exception",
                "ProfileBased: Revolution up to first/last is not yet supported")
    ELSE LET st1 == Called(st, "getFaceFromLinkSub", 0, <<>>)
             f == FaultAt(in, "getFaceFromLinkSub", 0)
         IN  IF f # "ok" THEN Raise(st1, f, "getFaceFromLinkSub")
             ELSE LET st2 == Called(st1, "getUpToFace", 0, <<>>)
                      g == FaultAt(in, "getUpToFace", 0)
                  IN  IF g # "ok" THEN Raise(st2, g, "getUpToFace")
                      ELSE LET loop == RevolLoop(in, st2, sketch, base, 2, <<"upToFace">>, 1)
                           IN  IF loop.how # "next" THEN loop
                               ELSE FinishResult(in, loop.st, loop.val, loop.val)

\* Lines 165-215: support face, then the branch the termination type selects.
Revolve(in, st, sketch, base, angle) ==
    LET method == in.Type
        st1 == Called(st, "getSupportFace", 0, <<>>)
        f == FaultAt(in, "getSupportFace", 0)
    IN  IF f # "ok" THEN Raise(st1, f, "getSupportFace")
        ELSE IF method \in {"UpToFace", "UpToFirst", "UpToLast"}
             THEN RevolveUpTo(in, st1, sketch, base, method)
             ELSE RevolveByAngle(in, st1, sketch, base, angle)

\* CheckAxis testing the first face of the sketch only.
CheckAxis_FirstFaceOnly(in, st, i) ==
    IF i > in.profile.n \/ i > 1 THEN Next_(st, NullShape)
    ELSE LET st1 == Called(st, "checkLineCrossesFace", i, <<>>)
             f == FaultAt(in, "checkLineCrossesFace", i)
         IN  IF f # "ok" THEN Raise(st1, f, "checkLineCrossesFace")
             ELSE IF i \in in.profile.cross
             THEN Returned(st1, "ExecReturn", "Revolve axis intersects the sketch")
             ELSE Next_(st1, NullShape)

\* Lines 157-163: for every face of the sketch, checkLineCrossesFace(axis, face);
\* the first crossing face ends the call.
RECURSIVE CheckAxis(_, _, _)
CheckAxis(in, st, i) ==
    IF i > in.profile.n THEN Next_(st, NullShape)
    ELSE LET st1 == Called(st, "checkLineCrossesFace", i, <<>>)
             f == FaultAt(in, "checkLineCrossesFace", i)
         IN  IF f # "ok" THEN Raise(st1, f, "checkLineCrossesFace")
             ELSE IF i \in in.profile.cross
             THEN Returned(st1, "ExecReturn", "Revolve axis intersects the sketch")
             ELSE CheckAxis(in, st1, i + 1)


\* AngleCheck with the upper test written >= instead of >.
AngleCheck_Inclusive(angleDeg) ==
    IF angleDeg >= MaxAngleDeg THEN "Angle of revolution too large"
    ELSE IF toRadians(angleDeg) < PrecisionAngular THEN "Angle of revolution too small"
    ELSE ""

\* Lines 85-91: the two angle tests, in order. "" when the angle passes.
AngleCheck(angleDeg) ==
    IF angleDeg > MaxAngleDeg THEN "Angle of revolution too large"
    ELSE IF toRadians(angleDeg) < PrecisionAngular THEN "Angle of revolution too small"
    ELSE ""

\* SweepSpec with TwoAngles pre-rotating the sketch but not extending the sweep.
SweepSpec_NoSum(in) ==
    LET angle0 == toRadians(in.Angle)
        angle2 == toRadians(in.Angle2)
        angle1 == IF in.Reversed /\ ~in.Midplane THEN angle0 * (-1) ELSE angle0
    IN  IF in.Midplane
        THEN [rot2 |-> toRadians(in.Angle) * (-1), angle |-> angle1]
        ELSE IF in.Type = "TwoAngles"
        THEN [rot2 |-> 2 * (angle2 * (-1)), angle |-> angle1]
        ELSE [rot2 |-> 0, angle |-> angle1]

\* SweepSpec with the angle reversed whenever Reversed is set, Midplane or not.
SweepSpec_AlwaysReverses(in) ==
    LET angle0 == toRadians(in.Angle)
        angle2 == toRadians(in.Angle2)
        angle1 == IF in.Reversed THEN angle0 * (-1) ELSE angle0
    IN  IF in.Midplane
        THEN [rot2 |-> toRadians(in.Angle) * (-1), angle |-> angle1]
        ELSE IF in.Type = "TwoAngles"
        THEN [rot2 |-> 2 * (angle2 * (-1)), angle |-> angle1 + angle2]
        ELSE [rot2 |-> 0, angle |-> angle1]

\* Lines 89-97 and 134-148: the sweep handed to the kernel.
\*   angle : the signed sweep angle (microradians);
\*   rot2  : twice the rotation about the axis applied to the sketch beforehand.
SweepSpec(in) ==
    LET angle0 == toRadians(in.Angle)
        angle2 == toRadians(in.Angle2)
        angle1 == IF in.Reversed /\ ~in.Midplane THEN angle0 * (-1) ELSE angle0
    IN  IF in.Midplane
        THEN [rot2 |-> toRadians(in.Angle) * (-1), angle |-> angle1]
        ELSE IF in.Type = "TwoAngles"
        THEN [rot2 |-> 2 * (angle2 * (-1)), angle |-> angle1 + angle2]
        ELSE [rot2 |-> 0, angle |-> angle1]

\* Lines 128-238: the body of the last try block.  positionByPrevious() and
\* getLocation() (150-151) are one collaborator step; the Placement they touch is
\* not among the modelled properties.  The gp_Pnt / gp_Dir of lines 123-126 are
\* built from the Base and Axis updateAxis() has just stored.
TryBody(in, st, sketchNull, base0) ==
    IF sketchNull
    THEN Returned(st, "ExecReturn", "Creating a face from sketch failed")
    ELSE LET sweep == SweepSpec(in)
             st1 == Called(st, "positionByPrevious", 0, <<>>)
             f == FaultAt(in, "positionByPrevious", 0)
         IN  IF f # "ok" THEN Raise(st1, f, "positionByPrevious")
             ELSE LET sketch == [n |-> in.profile.n, rot2 |-> sweep.rot2]
                      checked == CheckAxis(in, st1, 1)
                  IN  IF checked.how # "next" THEN checked
                      ELSE Revolve(in, checked.st, sketch, Move(base0), sweep.angle)

\* Lines 239-249: the handlers of the last try block.
Catch(t) ==
    IF t.how = "Standard_Failure"
    THEN IF t.msg = "TopoDS::Face"
         THEN [ret |-> "ExecReturn", via |-> "Standard_Failure",
               msg |-> "Could not create face from sketch. Intersecting sketch entities in a sketch are not allowed."]
         ELSE [ret |-> "ExecReturn", via |-> "Standard_Failure", msg |-> t.msg]
    ELSE IF t.how = "Base::Exception"
    THEN [ret |-> "ExecReturn", via |-> "Base::Exception", msg |-> t.msg]
    ELSE [ret |-> t.ret, via |-> "direct", msg |-> t.msg]

\* An exception no handler of execute() matches leaves the call.
Escape(how, msg) == [ret |-> "Thrown", via |-> how, msg |-> msg]

\* What a call leaves behind: its outcome, the output properties and the call log.
Outcome(outcome, st) ==
    [ret |-> outcome.ret, via |-> outcome.via, msg |-> outcome.msg,
     Base |-> st.Base, Axis |-> st.Axis, AddSubShape |-> st.AddSubShape,
     Shape |-> st.Shape, calls |-> st.calls]

\* Lines 263-273: Revolution::updateAxis(): getAxis, then Base and Axis are set.
updateAxis(in, st) ==
    LET st1 == Called(st, "getAxis", 0, <<>>)
        f == FaultAt(in, "getAxis", 0)
    IN  IF f # "ok" THEN Raise(st1, f, "getAxis")
        ELSE Next_([st1 EXCEPT !.Base = RefBase, !.Axis = RefDir], NullShape)

\* Lines 106-113: getBaseShape() throws a Base::Exception when the feature has no
\* base; the handler then takes an empty shape.
getBaseShapeOrNull(in, st) ==
    LET st1 == Called(st, "getBaseShape", 0, <<>>)
        f == FaultAt(in, "getBaseShape", 0)
    IN  IF f = "Standard_Failure" THEN Raise(st1, f, "getBaseShape")
        ELSE IF f = "Base::Exception" \/ ~in.hasBase THEN Next_(st1, NullShape)
        ELSE Next_(st1, BaseSolid)

\* Lines 99-126 and the try block: everything after the angle tests.
Build(in, st) ==
    LET st1 == Called(st, "getVerifiedFace", 0, <<>>)
        f == FaultAt(in, "getVerifiedFace", 0)
    IN  IF f = "Base::Exception"
        THEN Outcome([ret |-> "ExecReturn", via |-> f, msg |-> "getVerifiedFace"], st1)
        ELSE IF f # "ok" THEN Outcome(Escape(f, "getVerifiedFace"), st1)
        ELSE LET b == getBaseShapeOrNull(in, st1)
             IN  IF b.how # "next" THEN Outcome(Escape(b.how, b.msg), b.st)
                 ELSE LET a == updateAxis(in, b.st)
                      IN  IF a.how = "Base::Exception"
                          THEN Outcome([ret |-> "ExecReturn", via |-> a.how, msg |-> a.msg], a.st)
                          ELSE IF a.how # "next" THEN Outcome(Escape(a.how, a.msg), a.st)
                          ELSE LET t == TryBody(in, a.st, in.profile.null, b.val)
                               IN  Outcome(Catch(t), t.st)

\* Lines 81-250: App::DocumentObjectExecReturn *Revolution::execute().
\*   p  : the output properties before the call;
\*   in : the input properties and the collaborators' behaviour in this call.
execute(p, in) ==
    LET st == [Base |-> p.Base, Axis |-> p.Axis, AddSubShape |-> p.AddSubShape,
               Shape |-> p.Shape, calls |-> <<>>]
        bad == AngleCheck(in.Angle)
    IN  IF bad # ""
        THEN Outcome([ret |-> "ExecReturn", via |-> "direct", msg |-> bad], st)
        ELSE Build(in, st)


----------------------------------------------------------------------------
(* The environment of one execute() call *)

NoFault == [step |-> "none", kind |-> "ok", face |-> 0]

\* The sketch as getVerifiedFace() returns it: a null shape, or n faces of which
\* those in `cross` are crossed by the revolve axis (a rotation about that axis and
\* the common placement transform do not change which faces it crosses).
Profiles ==
    {[null |-> TRUE, n |-> 0, cross |-> {}]}
    \cup {[null |-> FALSE, n |-> k, cross |-> c] : k \in 0..MaxFaces, c \in SUBSET (1..MaxFaces)}

\* At most one fault ends a call, so one injected fault per call covers every
\* combination (the swallowed Base::Exception of getBaseShape is the flag hasBase).
\* For refineShapeIfActive `face` counts the call: 1 the swept, 2 the fused shape.
Faults(profile) ==
    {NoFault}
    \cup {[step |-> s, kind |-> k, face |-> 0] :
            s \in {"getVerifiedFace", "getBaseShape", "getAxis", "positionByPrevious",
                   "getSupportFace", "getFaceFromLinkSub", "getUpToFace"},
            k \in {"Base::Exception", "Standard_Failure"}}
    \cup {[step |-> "refineShapeIfActive", kind |-> "Standard_Failure", face |-> i] : i \in 1..2}
    \cup {[step |-> "BRepAlgoAPI_Fuse", kind |-> k, face |-> 0] : k \in {"notDone", "Standard_Failure"}}
    \cup {[step |-> "getSolid", kind |-> k, face |-> 0] : k \in {"empty", "Standard_Failure"}}
    \cup {[step |-> "checkLineCrossesFace", kind |-> k, face |-> i] :
            k \in {"Standard_Failure", "TopoDS::Face"}, i \in 1..profile.n}
    \cup {[step |-> "BRepFeat_MakeRevol", kind |-> k, face |-> i] :
            k \in {"notDone", "Standard_Failure"}, i \in 1..profile.n}

Envs ==
    UNION {{[profile |-> p, hasBase |-> b, fault |-> f] : b \in BOOLEAN, f \in Faults(p)} :
            p \in {q \in Profiles : q.cross \subseteq 1..q.n}}

\* The input of execute(): the input properties and the environment.
In(type, angle, angle2, reversed, midplane, e) ==
    [Type |-> type, Angle |-> angle, Angle2 |-> angle2, Reversed |-> reversed,
     Midplane |-> midplane, profile |-> e.profile, hasBase |-> e.hasBase, fault |-> e.fault]

----------------------------------------------------------------------------
(* The state machine *)

\* Lines 52-66: the output properties Revolution::Revolution() leaves.
Constructed ==
    [Base |-> <<0, 0, 0>>, Axis |-> <<0, 1, 0>>, AddSubShape |-> NullShape, Shape |-> NullShape]

NominalEnv ==
    [profile |-> [null |-> FALSE, n |-> 1, cross |-> {}], hasBase |-> TRUE, fault |-> NoFault]

\* The output properties of a feature that was constructed and recomputed once,
\* with the constructor's inputs, a one-face sketch and a base solid.
Committed ==
    LET r == execute(Constructed, In("Angle", MaxAngleDeg, 60 * UnitsPerDegree, FALSE, FALSE, NominalEnv))
    IN  [Base |-> r.Base, Axis |-> r.Axis, AddSubShape |-> r.AddSubShape, Shape |-> r.Shape]

NoResult == [ret |-> "none", via |-> "direct", msg |-> ""]

\* Lines 52-66: the constructor's property values; the feature is fresh or carries
\* the outputs of an earlier execute().
Init ==
    /\ Type = TypeEnums[1]
    /\ Angle = MaxAngleDeg
    /\ Angle2 = 60 * UnitsPerDegree
    /\ Reversed = FALSE
    /\ Midplane = FALSE
    /\ \E o \in {Constructed, Committed} :
          /\ Base = o.Base
          /\ Axis = o.Axis
          /\ AddSubShape = o.AddSubShape
          /\ Shape = o.Shape
          /\ pre = o
    /\ phase = "editing"
    /\ env = NominalEnv
    /\ result = NoResult
    /\ calls = <<>>

Outputs == <<Base, Axis, AddSubShape, Shape>>
History == <<pre, env, result, calls>>

\* The user edits an input property before the recompute.
SetType(t) ==
    /\ phase = "editing" /\ t # Type
    /\ Type' = t
    /\ UNCHANGED <<Angle, Angle2, Reversed, Midplane, Outputs, phase, History>>

SetAngle(a) ==
    /\ phase = "editing" /\ a # Angle
    /\ Angle' = a
    /\ UNCHANGED <<Type, Angle2, Reversed, Midplane, Outputs, phase, History>>

SetAngle2(a) ==
    /\ phase = "editing" /\ a # Angle2
    /\ Angle2' = a
    /\ UNCHANGED <<Type, Angle, Reversed, Midplane, Outputs, phase, History>>

SetReversed ==
    /\ phase = "editing"
    /\ Reversed' = ~Reversed
    /\ UNCHANGED <<Type, Angle, Angle2, Midplane, Outputs, phase, History>>

SetMidplane ==
    /\ phase = "editing"
    /\ Midplane' = ~Midplane
    /\ UNCHANGED <<Type, Angle, Angle2, Reversed, Outputs, phase, History>>

\* Revolution::execute() runs once, against an environment e.
Recompute(e) ==
    /\ phase = "editing"
    /\ LET p == [Base |-> Base, Axis |-> Axis, AddSubShape |-> AddSubShape, Shape |-> Shape]
           r == execute(p, In(Type, Angle, Angle2, Reversed, Midplane, e))
       IN  /\ pre' = p
           /\ env' = e
           /\ result' = [ret |-> r.ret, via |-> r.via, msg |-> r.msg]
           /\ calls' = r.calls
           /\ Base' = r.Base
           /\ Axis' = r.Axis
           /\ AddSubShape' = r.AddSubShape
           /\ Shape' = r.Shape
    /\ phase' = "done"
    /\ UNCHANGED <<Type, Angle, Angle2, Reversed, Midplane>>

Next ==
    \/ \E t \in TypeValues : SetType(t)
    \/ \E a \in AngleValues : SetAngle(a)
    \/ \E a \in Angle2Values : SetAngle2(a)
    \/ SetReversed
    \/ SetMidplane
    \/ \E e \in Envs : Recompute(e)

Spec == Init /\ [][Next]_vars


----------------------------------------------------------------------------
(* Vocabulary of the properties *)

Done == phase = "done"

\* execute() returned an error object / the standard return / let an exception out.
Failure == Done /\ result.ret = "ExecReturn"
Success == Done /\ result.ret = "StdReturn"
Escaped == Done /\ result.ret = "Thrown"

\* The input the last execute() ran on.
LastIn == In(Type, Angle, Angle2, Reversed, Midplane, env)

CallsOf(op) == {i \in 1..Len(calls) : calls[i].op = op}

\* The angle tests reject the stored Angle (stated on the property value).
AngleOutOfRange ==
    \/ Angle > 360 * UnitsPerDegree
    \/ toRadians(Angle) < PrecisionAngular

AngleMessages == {"Angle of revolution too large", "Angle of revolution too small"}

\* The base retrieval ends the call (only a kernel fault does; a Base::Exception is handled).
BaseRetrievalEscapes == env.fault.step = "getBaseShape" /\ env.fault.kind = "Standard_Failure"

\* Every step before the axis/profile check completes: the angle passes, the face
\* is extracted and not null, the axis resolves, the placement is computed.
ReachesAxisCheck ==
    /\ ~AngleOutOfRange
    /\ ~env.profile.null
    /\ env.fault.step \notin {"getVerifiedFace", "getAxis", "positionByPrevious"}
    /\ ~BaseRetrievalEscapes

\* The axis/profile check completes and finds no crossing face, and the support
\* face is obtained: control reaches the choice of the termination strategy.
ReachesTermination ==
    /\ ReachesAxisCheck
    /\ env.profile.cross = {}
    /\ env.fault.step \notin {"checkLineCrossesFace", "getSupportFace"}

\* The index of the call that refined the swept shape and was followed by more
\* work, i.e. the AddSubShape store of line 220 was reached (0 if it was not).
SweptStoredAt ==
    LET I == {i \in CallsOf("refineShapeIfActive") : calls[i].face = 1 /\ i < Len(calls)}
    IN  IF I = {} THEN 0 ELSE CHOOSE i \in I : TRUE

----------------------------------------------------------------------------
(* C1 *)

\* C1: a recompute that returns Failure, whatever the error, leaves Shape equal to
\* its value before the call; Shape is written only by a call that ends in Success,
\* as the effect of its last step (after the solid extraction, the last call made).
C1_ShapeUntouchedOnFailure ==
    /\ Failure => Shape = pre.Shape
    /\ (Done /\ Shape # pre.Shape) =>
          /\ Success
          /\ calls[Len(calls)].op = "getSolid"

\* A failure at the boolean union, after earlier work of the call succeeded, on a
\* feature that already held a committed solid.
C1_Witness ==
    /\ Failure
    /\ result.msg = "Fusion with base feature failed"
    /\ pre.Shape # NullShape
    /\ Shape = pre.Shape

----------------------------------------------------------------------------
(* C2 *)

\* C2 as stated: every recompute that returns Failure leaves AddSubShape as it was.
C2_Original_AddSubShapeUntouchedOnFailure ==
    Failure => AddSubShape = pre.AddSubShape

\* C2, amended: a recompute that returns Failure leaves AddSubShape unchanged when
\* it fails before the swept solid is stored (any failure up to and including the
\* refinement of the swept result); when it fails later (boolean union, refinement
\* of the fused shape, solid extraction) AddSubShape already holds the refined
\* swept shape of this call.
C2_AddSubShapeOnFailure ==
    Failure =>
        IF SweptStoredAt = 0
        THEN AddSubShape = pre.AddSubShape
        ELSE /\ AddSubShape = Refined(calls[SweptStoredAt].arg[1])
             /\ calls[Len(calls)].op \in {"BRepAlgoAPI_Fuse", "refineShapeIfActive", "getSolid"}

\* The revolve of a face does not complete, on a feature with a stored AddSubShape.
C2_Witness ==
    /\ Failure
    /\ result.msg = "ProfileBased: Could not revolve the sketch!"
    /\ pre.AddSubShape # NullShape
    /\ AddSubShape = pre.AddSubShape

----------------------------------------------------------------------------
(* C3 *)

\* C3: no fault of any collaborator, of either kind, leaves execute(): every call
\* ends by returning (Success or Failure(message)).
C3_NothingEscapes ==
    Done => result.ret \in {"StdReturn", "ExecReturn"}

----------------------------------------------------------------------------
(* C4 *)

\* C4 as stated (on runs in which no collaborator faults): with Type UpToFirst or
\* UpToLast the recompute fails with the "not yet supported" error whatever the
\* other inputs are.
C4_Original_AlwaysUnsupported ==
    (Done /\ Type \in {"UpToFirst", "UpToLast"} /\ env.fault = NoFault) =>
        /\ Failure
        /\ result.msg = "ProfileBased: Revolution up to first/last is not yet supported"

\* C4, amended: with Type UpToFirst or UpToLast the recompute never succeeds, makes
\* no revolve or union call and leaves Shape and AddSubShape as they were; it
\* returns the "not yet supported" failure exactly when every earlier step completes
\* (angle in range, non-null face extracted, axis resolved, placement computed, no
\* face crossed by the axis, support face obtained), and the earlier step's outcome
\* otherwise.
C4_UnsupportedTermination ==
    (Done /\ Type \in {"UpToFirst", "UpToLast"}) =>
        /\ ~Success
        /\ CallsOf("BRepFeat_MakeRevol") = {}
        /\ CallsOf("BRepAlgoAPI_Fuse") = {}
        /\ Shape = pre.Shape
        /\ AddSubShape = pre.AddSubShape
        /\ (Failure /\ result.msg = "ProfileBased: Revolution up to first/last is not yet supported")
              <=> ReachesTermination

\* UpToFirst with a full-turn angle and a reversed direction: the unsupported
\* termination is what fails.
C4_Witness ==
    /\ Failure
    /\ Type = "UpToFirst"
    /\ Angle = 360 * UnitsPerDegree
    /\ Reversed
    /\ result.msg = "ProfileBased: Revolution up to first/last is not yet supported"

----------------------------------------------------------------------------
(* C5 *)

\* C5: the recompute fails with an angle-range error exactly when Angle > 360
\* degrees or radians(Angle) is below the angular precision; that failure comes
\* before any collaborator call and leaves Base, Axis and the shapes as they were;
\* Angle = 360 passes the tests.
C5_AngleOutOfRange ==
    Done =>
        /\ (Failure /\ result.msg \in AngleMessages) <=> AngleOutOfRange
        /\ AngleOutOfRange =>
              /\ calls = <<>>
              /\ <<Base, Axis, AddSubShape, Shape>>
                    = <<pre.Base, pre.Axis, pre.AddSubShape, pre.Shape>>
        /\ (Angle = 360 * UnitsPerDegree) => ~(result.msg \in AngleMessages)
        /\ (Angle = 360 * UnitsPerDegree + 1) => result.msg = "Angle of revolution too large"
        /\ (Angle = 0) => result.msg = "Angle of revolution too small"

\* 360.0001 degrees is rejected on a feature whose every other collaborator would
\* have worked.
C5_Witness ==
    /\ Failure
    /\ Angle = 360 * UnitsPerDegree + 1
    /\ result.msg = "Angle of revolution too large"
    /\ env.fault = NoFault
    /\ calls = <<>>

----------------------------------------------------------------------------
(* C6 *)

\* C6 as stated (on runs in which no collaborator faults): when the axis crosses a
\* face of the profile the recompute yields "Revolve axis intersects the sketch"
\* and makes no revolve or union call.
C6_Original_AlwaysAxisIntersects ==
    (Done /\ env.profile.cross # {} /\ env.fault = NoFault) =>
        /\ Failure
        /\ result.msg = "Revolve axis intersects the sketch"
        /\ CallsOf("BRepFeat_MakeRevol") = {}
        /\ CallsOf("BRepAlgoAPI_Fuse") = {}

\* The first face of the profile the axis crosses.
FirstCrossing == CHOOSE i \in env.profile.cross : \A j \in env.profile.cross : i <= j

\* C6, amended: when the axis crosses a face of the profile the recompute never
\* succeeds, makes no revolve or union call and leaves Shape and AddSubShape as
\* they were; it yields "Revolve axis intersects the sketch" exactly when the steps
\* before the check complete (angle in range, non-null face extracted, axis
\* resolved, placement computed, no kernel fault in the check up to the first
\* crossed face), and the earlier step's outcome otherwise.
C6_AxisIntersectsProfile ==
    (Done /\ env.profile.cross # {}) =>
        /\ ~Success
        /\ CallsOf("BRepFeat_MakeRevol") = {}
        /\ CallsOf("BRepAlgoAPI_Fuse") = {}
        /\ Shape = pre.Shape
        /\ AddSubShape = pre.AddSubShape
        /\ (Failure /\ result.msg = "Revolve axis intersects the sketch")
              <=> (/\ ReachesAxisCheck
                   /\ ~(/\ env.fault.step = "checkLineCrossesFace"
                        /\ env.fault.face <= FirstCrossing))

\* The axis crosses the second face of a two-face profile only.
C6_Witness ==
    /\ Failure
    /\ env.profile.n = 2
    /\ env.profile.cross = {2}
    /\ result.msg = "Revolve axis intersects the sketch"
    /\ Len(calls) = 6

----------------------------------------------------------------------------
(* C7 *)

\* C7: after every recompute that returns Success, Shape is a non-empty solid.
C7_NoEmptyShapeCommitted ==
    Success => Shape # NullShape

----------------------------------------------------------------------------
(* C8 *)

\* The revolve calls of the last execute() all sweep face rotation rot2 / 2 by angle.
RevolvesWith(rot2, angle) ==
    \A i \in CallsOf("BRepFeat_MakeRevol") :
        /\ calls[i].arg[2][3] = rot2
        /\ calls[i].arg[4] = <<"angle", angle>>

\* C8 as stated: with TwoAngles and no Midplane, for every Reversed, the profile is
\* pre-rotated by -Angle2 and swept by Angle + Angle2.
C8_Original_SweepIsAnglePlusAngle2 ==
    (Done /\ Type = "TwoAngles" /\ ~Midplane) =>
        RevolvesWith(2 * (-toRadians(Angle2)), toRadians(Angle) + toRadians(Angle2))

\* C8, amended: with TwoAngles and no Midplane the profile is pre-rotated by
\* -Angle2 and swept by s*Angle + Angle2, s = -1 if Reversed and +1 otherwise: the
\* sweep spans from -Angle2 to +Angle when Reversed is false and from -Angle2 to
\* -Angle when it is true.
C8_TwoAnglesSweep ==
    (Done /\ Type = "TwoAngles" /\ ~Midplane) =>
        RevolvesWith(2 * (-toRadians(Angle2)),
                     (IF Reversed THEN -toRadians(Angle) ELSE toRadians(Angle)) + toRadians(Angle2))

\* TwoAngles, 30 and 20 degrees, not reversed: both faces of a profile are swept.
C8_Witness ==
    /\ Success
    /\ Type = "TwoAngles"
    /\ ~Midplane
    /\ ~Reversed
    /\ Angle = 30 * UnitsPerDegree
    /\ Angle2 = 20 * UnitsPerDegree
    /\ Cardinality(CallsOf("BRepFeat_MakeRevol")) = 2
    /\ RevolvesWith(-2 * 20 * MicroRadPerDegree, 50 * MicroRadPerDegree)

----------------------------------------------------------------------------
(* C9 *)

\* C9: with Midplane set, Reversed has no effect: the same call with Reversed
\* flipped makes the same collaborator calls with the same arguments (pre-rotation
\* -Angle/2, unsigned sweep angle), ends the same way and leaves the same Shape and
\* AddSubShape.
C9_MidplaneIgnoresReversed ==
    (Done /\ Midplane) =>
        LET other == execute(pre, In(Type, Angle, Angle2, ~Reversed, Midplane, env))
        IN  /\ other.calls = calls
            /\ <<other.ret, other.via, other.msg>> = <<result.ret, result.via, result.msg>>
            /\ other.Shape = Shape
            /\ other.AddSubShape = AddSubShape
            /\ \A i \in CallsOf("BRepFeat_MakeRevol") :
                  /\ calls[i].arg[2][3] = -toRadians(Angle)
                  /\ calls[i].arg[4][1] = "angle" => calls[i].arg[4][2] = toRadians(Angle)

\* A reversed midplane revolution by 30 degrees that succeeds.
C9_Witness ==
    /\ Success
    /\ Midplane
    /\ Reversed
    /\ Type = "Angle"
    /\ Angle = 30 * UnitsPerDegree
    /\ CallsOf("BRepFeat_MakeRevol") # {}

----------------------------------------------------------------------------
(* C10 *)

\* C10: when the feature has no base solid (none exists, or its retrieval throws),
\* the recompute makes no boolean-union call, and on success Shape is the outermost
\* solid of the refined swept shape alone.
C10_NoUnionWithoutBase ==
    (Done /\ (~env.hasBase \/ (env.fault.step = "getBaseShape" /\ env.fault.kind = "Base::Exception"))) =>
        /\ CallsOf("BRepAlgoAPI_Fuse") = {}
        /\ (Success /\ Shape # NullShape) => Shape = SolidOf(AddSubShape)

====
